---- MODULE Spec2Model ----
(***************************************************************************)
(* Behaviour planner of vehicle.py: the Vehicle object, its maneuver       *)
(* realizer, the trajectory simulator and the state selector, as a state   *)
(* machine driven by a harness.  All quantities are Python 2 integers, so  *)
(* "/" is floor division.  Python indices are 0-based; At(seq, i) reads    *)
(* seq[i].                                                                 *)
(***************************************************************************)
EXTENDS Integers, Sequences, FiniteSets, TLC

VARIABLES
  self,         \* the Vehicle object: lane, s, v, a, state and the configure() fields
  heap,         \* the predictions objects alive: the caller's and the selector's deep copy
  pc,           \* "idle": the harness is about to call; "returned": a call just ended;
                \* "raised": an exception reached the harness, which ends the program
  outcome,      \* the call that just ended: its error, its result, the cost calls it made
  pre           \* history: the vehicle and the predictions when that call began

vars == <<self, heap, pc, outcome, pre>>

----------------------------------------------------------------------------
(* Program constants *)

L == 1
preferred_buffer == 6
Horizon == 5

None == "None"
NoError == "ok"

(* Bounds of the model: lanes of the road, other vehicles predicted, and the
   range of s and v the live vehicle is driven over *)

MaxLanes == 3
MaxOthers == 2
MaxS == 2

(* and the times state_at, collides_with and will_collide_with are asked about *)

MaxT == 3

----------------------------------------------------------------------------
(* Python helpers *)

At(seq, i) == seq[i + 1]

FloorDiv(x, y) == IF y > 0 THEN x \div y ELSE (-x) \div (-y)

Min2(x, y) == IF x <= y THEN x ELSE y
Max2(x, y) == IF x >= y THEN x ELSE y

(* The(S) is the element of the singleton S.  The({e(r) : r \in {x}}) is
   e(x) with x evaluated once: the form used where a result is read again
   and again, as a Python local variable is. *)
The(S) == CHOOSE x \in S : TRUE

Ok(obj) == [err |-> NoError, self |-> obj]
Raise(e, obj) == [err |-> e, self |-> obj]

(* dict.items() of a dict with small integer keys: ascending key order *)
Items(predictions) == DOMAIN predictions

----------------------------------------------------------------------------
(* Snapshot / rollback *)

Snapshot(lane, s, v, a, state) ==
  [lane |-> lane, s |-> s, v |-> v, a |-> a, state |-> state]

snapshot(obj) == Snapshot(obj.lane, obj.s, obj.v, obj.a, obj.state)

(* restore that leaves the lane as the simulation moved it *)
restore_state_forgetting_lane(obj, snap) ==
  [obj EXCEPT !.s = snap.s, !.v = snap.v, !.a = snap.a, !.state = snap.state]

(* restore that leaves the acceleration as the simulation set it *)
restore_state_forgetting_a(obj, snap) ==
  [obj EXCEPT !.lane = snap.lane, !.s = snap.s, !.v = snap.v, !.state = snap.state]

(* restore that leaves the state tag of the candidate *)
restore_state_forgetting_state(obj, snap) ==
  [obj EXCEPT !.lane = snap.lane, !.s = snap.s, !.v = snap.v, !.a = snap.a]

restore_state_from_snapshot(obj, snap) ==
  [obj EXCEPT !.lane = snap.lane, !.s = snap.s, !.v = snap.v,
              !.a = snap.a, !.state = snap.state]

----------------------------------------------------------------------------
(* Kinematics *)

increment(obj) == [obj EXCEPT !.s = obj.s + obj.v, !.v = obj.v + obj.a]

state_at(obj, t) ==
  [lane |-> obj.lane,
   s    |-> obj.s + obj.v * t + FloorDiv(obj.a * t * t, 2),
   v    |-> obj.v + obj.a * t,
   a    |-> obj.a]

(* vehicle.py 156-162.  `L` is a class attribute, reached as Vehicle.L or
   self.L only: the bare name read at line 162 is looked up in the function,
   the module and the builtins, is in none, and raises NameError.  `and`
   does not evaluate it when the lanes differ. *)
collides_with(obj, other, at_time) ==
  LET here == state_at(obj, at_time)
      there == state_at(other, at_time)
  IN IF here.lane = there.lane
       THEN [err |-> "NameError", val |-> FALSE]
       ELSE [err |-> NoError, val |-> FALSE]

(* vehicle.py 164-168: the first t of 0 .. timesteps at which collides_with
   returns true or raises *)
will_collide_with(obj, other, timesteps) ==
  LET ends == {t \in 0..timesteps :
                 collides_with(obj, other, t).err # NoError \/ collides_with(obj, other, t).val}
  IN IF ends = {}
       THEN [err |-> NoError, val |-> [collides |-> FALSE, t |-> None]]
       ELSE LET t == CHOOSE x \in ends : \A y \in ends : x <= y
            IN IF collides_with(obj, other, t).err # NoError
                 THEN [err |-> collides_with(obj, other, t).err,
                       val |-> [collides |-> FALSE, t |-> None]]
                 ELSE [err |-> NoError, val |-> [collides |-> TRUE, t |-> t]]

generate_predictions(obj, horizon) ==
  [k \in 1..horizon |-> [s |-> state_at(obj, k - 1).s, lane |-> state_at(obj, k - 1).lane]]

----------------------------------------------------------------------------
(* Maneuver realizer *)

realize_constant_speed(obj) == Ok([obj EXCEPT !.a = 0])

(* vehicles whose current record is in `lane` strictly ahead of s *)
in_front(predictions, lane, s) ==
  {id \in Items(predictions) :
     At(predictions[id], 0).lane = lane /\ At(predictions[id], 0).s > s}

(* min(in_front, key = gap): the first of the smallest gap *)
leading(predictions, lane, s) ==
  CHOOSE id \in in_front(predictions, lane, s) :
    \A o \in in_front(predictions, lane, s) :
      \/ At(predictions[id], 0).s < At(predictions[o], 0).s
      \/ (At(predictions[id], 0).s = At(predictions[o], 0).s /\ id <= o)

(* the acceleration with no buffer kept behind the lead vehicle *)
max_accel_for_lane_without_buffer(obj, predictions, lane, s) ==
  LET max_acc == Min2(obj.max_acceleration, obj.target_speed - obj.v)
  IN IF \E id \in Items(predictions) : Len(predictions[id]) < 1
       THEN [err |-> "IndexError", val |-> 0]
     ELSE IF in_front(predictions, lane, s) = {}
       THEN [err |-> NoError, val |-> max_acc]
     ELSE LET lead == predictions[leading(predictions, lane, s)]
          IN IF Len(lead) < 2
               THEN [err |-> "IndexError", val |-> 0]
             ELSE [err |-> NoError, val |-> Min2(max_acc, At(lead, 1).s - (s + obj.v))]

(* the acceleration from the lead vehicle's current record instead of its
   next one *)
max_accel_for_lane_current_record(obj, predictions, lane, s) ==
  LET max_acc == Min2(obj.max_acceleration, obj.target_speed - obj.v)
  IN IF \E id \in Items(predictions) : Len(predictions[id]) < 1
       THEN [err |-> "IndexError", val |-> 0]
     ELSE IF in_front(predictions, lane, s) = {}
       THEN [err |-> NoError, val |-> max_acc]
     ELSE LET lead == predictions[leading(predictions, lane, s)]
          IN [err |-> NoError,
              val |-> Min2(max_acc, At(lead, 0).s - (s + obj.v) - preferred_buffer)]

(* [err, val]: the acceleration, or IndexError on a missing record *)
max_accel_for_lane(obj, predictions, lane, s) ==
  LET max_acc == Min2(obj.max_acceleration, obj.target_speed - obj.v)
  IN IF \E id \in Items(predictions) : Len(predictions[id]) < 1
       THEN [err |-> "IndexError", val |-> 0]
     ELSE IF in_front(predictions, lane, s) = {}
       THEN [err |-> NoError, val |-> max_acc]
     ELSE LET lead == predictions[leading(predictions, lane, s)]
          IN IF Len(lead) < 2
               THEN [err |-> "IndexError", val |-> 0]
             ELSE LET next_pos == At(lead, 1).s
                      my_next == s + obj.v
                      separation_next == next_pos - my_next
                      available_room == separation_next - preferred_buffer
                  IN [err |-> NoError, val |-> Min2(max_acc, available_room)]

realize_keep_lane(obj, predictions) ==
  LET r == max_accel_for_lane(obj, predictions, obj.lane, obj.s)
  IN IF r.err # NoError THEN Raise(r.err, obj)
     ELSE Ok([obj EXCEPT !.a = r.val])

(* a lane change whose acceleration is computed in the lane being left *)
realize_lane_change_old_lane(obj, predictions, direction) ==
  LET delta == IF direction = "R" THEN 1 ELSE -1
      moved == [obj EXCEPT !.lane = obj.lane + delta]
      r == max_accel_for_lane(obj, predictions, obj.lane, obj.s)
  IN IF r.err # NoError THEN Raise(r.err, moved)
     ELSE Ok([moved EXCEPT !.a = r.val])

realize_lane_change(obj, predictions, direction) ==
  LET delta == IF direction = "R" THEN 1 ELSE -1
      moved == [obj EXCEPT !.lane = obj.lane + delta]
      r == max_accel_for_lane(moved, predictions, moved.lane, moved.s)
  IN IF r.err # NoError THEN Raise(r.err, moved)
     ELSE Ok([moved EXCEPT !.a = r.val])

(* vehicles whose current record is in `lane` at or behind s *)
ids_and_vehicles(predictions, lane, s) ==
  {id \in Items(predictions) :
     At(predictions[id], 0).lane = lane /\ At(predictions[id], 0).s <= s}

(* max(ids_and_vehicles, key = s of record 0): the first of the largest s *)
nearest_behind(predictions, lane, s) ==
  CHOOSE id \in ids_and_vehicles(predictions, lane, s) :
    \A o \in ids_and_vehicles(predictions, lane, s) :
      \/ At(predictions[id], 0).s > At(predictions[o], 0).s
      \/ (At(predictions[id], 0).s = At(predictions[o], 0).s /\ id <= o)

(* vehicle.py 222-254: the acceleration set against the nearest vehicle
   behind in `lane` *)
prep_lane_change_toward(obj, predictions, lane) ==
  IF \E id \in Items(predictions) : Len(predictions[id]) < 1
    THEN Raise("IndexError", obj)
  ELSE IF ids_and_vehicles(predictions, lane, obj.s) = {}
    THEN Ok(obj)
  ELSE LET nb == predictions[nearest_behind(predictions, lane, obj.s)]
       IN IF Len(nb) < 2 THEN Raise("IndexError", obj)
          ELSE LET target_vel == At(nb, 1).s - At(nb, 0).s
                   delta_v == obj.v - target_vel
                   delta_s == obj.s - At(nb, 0).s
               IN IF delta_v # 0
                    THEN LET time == FloorDiv(-2 * delta_s, delta_v)
                             raw == IF time = 0 THEN obj.a
                                    ELSE FloorDiv(delta_v, time)
                             a == IF raw > obj.max_acceleration
                                    THEN obj.max_acceleration
                                  ELSE IF raw < -obj.max_acceleration
                                    THEN -obj.max_acceleration
                                  ELSE raw
                         IN Ok([obj EXCEPT !.a = a])
                  ELSE Ok([obj EXCEPT !.a = Max2(-obj.max_acceleration, -delta_s)])

(* vehicle.py 218-221: the lane looked at *)
prep_lane(obj, direction) ==
  LET delta == IF direction = "L" THEN 1 ELSE -1
  IN obj.lane + delta

realize_prep_lane_change(obj, predictions, direction) ==
  prep_lane_change_toward(obj, predictions, prep_lane(obj, direction))

realize_state(obj, predictions) ==
  CASE obj.state = "CS"   -> realize_constant_speed(obj)
    [] obj.state = "KL"   -> realize_keep_lane(obj, predictions)
    [] obj.state = "LCL"  -> realize_lane_change(obj, predictions, "L")
    [] obj.state = "LCR"  -> realize_lane_change(obj, predictions, "R")
    [] obj.state = "PLCL" -> realize_prep_lane_change(obj, predictions, "L")
    [] obj.state = "PLCR" -> realize_prep_lane_change(obj, predictions, "R")
    [] OTHER              -> Ok(obj)

----------------------------------------------------------------------------
(* Trajectory simulator *)

(* an iteration end that discards no record *)
pop_heads_skipped(predictions) == [err |-> NoError, predictions |-> predictions]

(* vehicle.py 107-108: v.pop(0) for each vehicle, in items() order; the pops
   before the first empty sequence are done when that pop raises *)
pop_heads(predictions) ==
  IF \E id \in Items(predictions) : Len(predictions[id]) = 0
    THEN LET stop == CHOOSE id \in Items(predictions) :
                       /\ Len(predictions[id]) = 0
                       /\ \A o \in Items(predictions) : Len(predictions[o]) = 0 => id <= o
         IN [err |-> "IndexError",
             predictions |-> [id \in Items(predictions) |->
                                IF id < stop THEN Tail(predictions[id]) ELSE predictions[id]]]
    ELSE [err |-> NoError,
          predictions |-> [id \in Items(predictions) |-> Tail(predictions[id])]]

lane_assertion(obj) == 0 <= obj.lane /\ obj.lane < obj.lanes_available

(* an iteration that does not set the candidate state again after the restore *)
simulate_step_without_state(obj, state, snap, trajectory, predictions) ==
  LET restored == restore_state_from_snapshot(obj, snap)
      r == realize_state(restored, predictions)
      moved == increment(r.self)
      popped == pop_heads(predictions)
  IN IF r.err # NoError
       THEN [err |-> r.err, self |-> r.self, trajectory |-> trajectory,
             predictions |-> predictions]
     ELSE IF ~lane_assertion(r.self)
       THEN [err |-> "AssertionError", self |-> r.self, trajectory |-> trajectory,
             predictions |-> predictions]
     ELSE [err |-> popped.err, self |-> moved,
           trajectory |-> Append(trajectory, snapshot(moved)),
           predictions |-> popped.predictions]

(* an iteration that goes on from where the one before left the vehicle *)
simulate_step_without_restore(obj, state, snap, trajectory, predictions) ==
  LET r == realize_state([obj EXCEPT !.state = state], predictions)
      moved == increment(r.self)
      popped == pop_heads(predictions)
  IN IF r.err # NoError
       THEN [err |-> r.err, self |-> r.self, trajectory |-> trajectory,
             predictions |-> predictions]
     ELSE IF ~lane_assertion(r.self)
       THEN [err |-> "AssertionError", self |-> r.self, trajectory |-> trajectory,
             predictions |-> predictions]
     ELSE [err |-> popped.err, self |-> moved,
           trajectory |-> Append(trajectory, snapshot(moved)),
           predictions |-> popped.predictions]

(* vehicle.py 99-108: one iteration of the horizon loop *)
simulate_step(obj, state, snap, trajectory, predictions) ==
  LET restored == [restore_state_from_snapshot(obj, snap) EXCEPT !.state = state]
  IN The({
       IF r.err # NoError
         THEN [err |-> r.err, self |-> r.self, trajectory |-> trajectory,
               predictions |-> predictions]
       ELSE IF ~lane_assertion(r.self)
         THEN [err |-> "AssertionError", self |-> r.self, trajectory |-> trajectory,
               predictions |-> predictions]
       ELSE The({[err |-> popped.err, self |-> moved,
                  trajectory |-> Append(trajectory, snapshot(moved)),
                  predictions |-> popped.predictions] :
                 moved \in {increment(r.self)}, popped \in {pop_heads(predictions)}})
       : r \in {realize_state(restored, predictions)}})

(* vehicle.py 98: the n iterations left of `for i in range(horizon)`; an
   exception leaves the loop with the vehicle as the failing statement left it *)
RECURSIVE horizon_loop(_, _, _, _, _, _, _)
horizon_loop(obj, h, state, snap, trajectory, predictions, n) ==
  IF n = 0
    THEN [err |-> NoError, self |-> obj, heap |-> h, trajectory |-> trajectory]
    ELSE The({
           LET h2 == [h EXCEPT ![predictions] = r.predictions]
           IN IF r.err # NoError
                THEN [err |-> r.err, self |-> r.self, heap |-> h2,
                      trajectory |-> r.trajectory]
                ELSE horizon_loop(r.self, h2, state, snap, r.trajectory, predictions, n - 1)
           : r \in {simulate_step(obj, state, snap, trajectory, h[predictions])}})

(* vehicle.py 91-112; `predictions` names the heap object passed in *)
trajectory_for_state(obj, h, state, predictions, horizon) ==
  LET snap == snapshot(obj)
  IN The({
       IF r.err # NoError THEN r
       ELSE [r EXCEPT !.self = restore_state_from_snapshot(r.self, snap)]
       : r \in {horizon_loop([obj EXCEPT !.state = state], h, state, snap, <<snap>>,
                             predictions, horizon)}})

----------------------------------------------------------------------------
(* State selector *)

Remove(seq, x) == SelectSeq(seq, LAMBDA y : y # x)

(* candidates without the lane-bound filtering *)
candidate_states_unfiltered(obj) == <<"KL", "LCL", "LCR">>

(* vehicle.py 68-72: the candidates, after lane-bound filtering *)
candidate_states(obj) ==
  LET states0 == <<"KL", "LCL", "LCR">>
      states1 == IF obj.lane = 0 THEN Remove(states0, "LCL") ELSE states0
  IN IF obj.lane = obj.lanes_available - 1 THEN Remove(states1, "LCR") ELSE states1

(* predictions_copy = predictions: the caller's object under another name *)
deepcopy_alias(h) == [predictions |-> "predictions", heap |-> h]

(* copy.deepcopy(predictions): a new object equal to the caller's *)
deepcopy(h) ==
  [predictions |-> "predictions_copy",
   heap |-> [h EXCEPT !.predictions_copy = h.predictions]]

(* the last entry of the smallest cost *)
best_last(costs) ==
  costs[CHOOSE k \in 1..Len(costs) :
          \A j \in 1..Len(costs) :
            costs[k].cost < costs[j].cost \/ (costs[k].cost = costs[j].cost /\ k >= j)]

(* min(costs, key = cost): the first entry of the smallest cost *)
best(costs) ==
  costs[CHOOSE k \in 1..Len(costs) :
          \A j \in 1..Len(costs) :
            costs[k].cost < costs[j].cost \/ (costs[k].cost = costs[j].cost /\ k <= j)]

(* vehicle.py 76-82 for the candidates in order: deep copy, then simulate.
   Nothing here reads a cost, so the simulations are computed before the
   costs are drawn; the loop ends at the first simulation that raises.
   copy is what the simulation began with. *)
RECURSIVE simulate_candidates(_, _, _)
simulate_candidates(obj, h, states) ==
  IF states = <<>> THEN <<>>
  ELSE The({
         The({
           LET this == [state |-> Head(states),
                        copy |-> copied.heap[copied.predictions],
                        err |-> t.err, self |-> t.self, heap |-> t.heap,
                        trajectory |-> t.trajectory]
           IN IF t.err # NoError THEN <<this>>
              ELSE <<this>> \o simulate_candidates(t.self, t.heap, Tail(states))
           : t \in {trajectory_for_state(obj, copied.heap, Head(states),
                                         copied.predictions, Horizon)}})
         : copied \in {deepcopy(h)}})

(* vehicle.py 76-84: the loop over the candidates from the k-th on.
   calculate_cost maps a state to what the external cost function does for
   its trajectory; calls records what each call of it received. *)
RECURSIVE candidates_loop(_, _, _, _)
candidates_loop(sims, k, acc, calculate_cost) ==
  LET this == sims[k]
      calls == Append(acc.calls, [state |-> this.state, trajectory |-> this.trajectory,
                                  predictions |-> this.heap.predictions])
      costs == Append(acc.costs, [state |-> this.state,
                                  cost |-> calculate_cost[this.state].cost])
      copies == Append(acc.copies, this.copy)
      ended == [self |-> this.self, heap |-> this.heap, copies |-> copies]
  IN IF this.err # NoError
       THEN ended @@ [err |-> this.err, costs |-> acc.costs, calls |-> acc.calls]
     ELSE IF calculate_cost[this.state].fails
       THEN ended @@ [err |-> "CostError", costs |-> acc.costs, calls |-> calls]
     ELSE IF k = Len(sims)
       THEN ended @@ [err |-> NoError, costs |-> costs, calls |-> calls]
     ELSE candidates_loop(sims, k + 1,
                          [costs |-> costs, calls |-> calls, copies |-> copies],
                          calculate_cost)

(* vehicle.py 67-89; sims is simulate_candidates(self, heap, candidate_states(self)) *)
get_next_state(sims, calculate_cost) ==
  The({r @@ [state |-> IF r.err = NoError THEN best(r.costs).state ELSE None]
       : r \in {candidates_loop(sims, 1,
                                [costs |-> <<>>, calls |-> <<>>, copies |-> <<>>],
                                calculate_cost)}})

(* update_state that does not assign the returned state *)
update_state_without_commit(sims, calculate_cost) == get_next_state(sims, calculate_cost)

(* vehicle.py 63-64 *)
update_state(sims, calculate_cost) ==
  The({IF r.err # NoError THEN r
       ELSE [r EXCEPT !.self = [r.self EXCEPT !.state = r.state]]
       : r \in {get_next_state(sims, calculate_cost)}})

----------------------------------------------------------------------------
(* Inputs of the harness *)

InitS == {0}
InitV == {1, 5}
InitA == {1}
SpeedLimits == {4}
MaxAccels == {2}
GoalS == {10}
CostValues == {0, 1}
OtherS == {-2, 3}
OtherV == {1}
PredLens == {Horizon, Horizon + 1}
HorizonArgs == {1, Horizon}
StateTags == {"CS", "KL", "LCL", "LCR", "PLCL", "PLCR"}

OtherVehicles == [lane : 0..(MaxLanes - 1), s : OtherS, v : OtherV, a : {0}]

(* the other vehicles on the road, numbered lane by lane *)
Roads ==
  UNION {{others \in [1..n -> OtherVehicles] :
            \A j \in 1..n, k \in 1..n : j < k => others[j].lane <= others[k].lane} :
         n \in 0..MaxOthers}

(* what the harness passes as predictions: generate_predictions of each other vehicle *)
PredictionInputs ==
  {[id \in DOMAIN others |-> generate_predictions(others[id], len)] :
     others \in Roads, len \in PredLens}

(* what the external cost function does for a candidate: a number, or a failure *)
CostOutcomes ==
  {[fails |-> FALSE, cost |-> c] : c \in CostValues} \cup {[fails |-> TRUE, cost |-> 0]}

Range(seq) == {seq[k] : k \in 1..Len(seq)}

EmptyDict == <<>>
NoHeap == [predictions |-> EmptyDict, predictions_copy |-> EmptyDict]
NoOutcome == [op |-> None, err |-> NoError]
NoPre == [op |-> None]

(* where a call leaves control: back in the harness, or in an uncaught exception *)
Ended(err) == IF err = NoError THEN "returned" ELSE "raised"

(* the configure() fields are None, modelled as absent, until configure() sets them *)
configured == "lanes_available" \in DOMAIN self

----------------------------------------------------------------------------
(* Vehicle.__init__ *)

Init ==
  /\ \E lane \in 0..(MaxLanes - 1), s \in InitS, v \in InitV, a \in InitA :
       self = [lane |-> lane, s |-> s, v |-> v, a |-> a, state |-> "CS"]
  /\ heap = NoHeap
  /\ pc = "idle"
  /\ outcome = NoOutcome
  /\ pre = NoPre

(* Vehicle.configure, called once by the simulator before simulation begins *)
configure(obj, road_data) ==
  [target_speed |-> road_data.speed_limit,
   lanes_available |-> road_data.num_lanes,
   max_acceleration |-> road_data.max_acceleration,
   goal_lane |-> road_data.goal[2],
   goal_s |-> road_data.goal[1]] @@ obj

Configure ==
  /\ pc = "idle" /\ ~configured
  /\ \E speed_limit \in SpeedLimits, num_lanes \in 1..MaxLanes,
        max_acceleration \in MaxAccels, goal_s \in GoalS :
       /\ self.lane < num_lanes
       /\ self' = configure(self, [speed_limit |-> speed_limit, num_lanes |-> num_lanes,
                                   max_acceleration |-> max_acceleration,
                                   goal |-> <<goal_s, num_lanes - 1>>])
  /\ UNCHANGED <<heap, pc, outcome, pre>>

(* update_state(predictions) called by the harness *)
UpdateState ==
  /\ pc = "idle" /\ configured
  /\ \E predictions \in PredictionInputs :
       \E sims \in {simulate_candidates(self,
                                         [NoHeap EXCEPT !.predictions = predictions],
                                         candidate_states(self))} :
          \E calculate_cost \in [Range(candidate_states(self)) -> CostOutcomes] :
            \E r \in {update_state(sims, calculate_cost)} :
               /\ self' = r.self
               /\ heap' = r.heap
               /\ outcome' = [op |-> "update_state", err |-> r.err, costs |-> r.costs,
                              calls |-> r.calls, copies |-> r.copies]
               /\ pre' = [op |-> "update_state", self |-> self,
                          predictions |-> predictions]
               /\ pc' = Ended(r.err)

(* _trajectory_for_state(state, predictions) called directly on the caller's
   own predictions object *)
TrajectoryForState ==
  /\ pc = "idle" /\ configured
  /\ \E state \in StateTags, predictions \in PredictionInputs, horizon \in HorizonArgs :
       \E r \in {trajectory_for_state(self, [NoHeap EXCEPT !.predictions = predictions],
                                      state, "predictions", horizon)} :
          /\ self' = r.self
          /\ heap' = r.heap
          /\ outcome' = [op |-> "_trajectory_for_state", err |-> r.err,
                         trajectory |-> r.trajectory, state |-> state,
                         horizon |-> horizon]
          /\ pre' = [op |-> "_trajectory_for_state", self |-> self,
                     predictions |-> predictions]
          /\ pc' = Ended(r.err)

(* realize_state(predictions) called on the live vehicle.  The code lets the
   lane drift without limit; the model follows it one lane past either edge. *)
RealizeState ==
  /\ pc = "idle" /\ configured
  /\ \E predictions \in PredictionInputs :
       \E r \in {realize_state(self, predictions)} :
          /\ r.self.lane \in (-1)..self.lanes_available
          /\ self' = r.self
          /\ heap' = [NoHeap EXCEPT !.predictions = predictions]
          /\ outcome' = [op |-> "realize_state", err |-> r.err]
          /\ pre' = [op |-> "realize_state", self |-> self, predictions |-> predictions]
          /\ pc' = Ended(r.err)

(* increment() called on the live vehicle, while s and v stay within MaxS *)
Increment ==
  /\ pc = "idle" /\ configured
  /\ increment(self).s \in (-MaxS)..MaxS
  /\ increment(self).v \in (-MaxS)..MaxS
  /\ self' = increment(self)
  /\ outcome' = [op |-> "increment", err |-> NoError]
  /\ pre' = [op |-> "increment", self |-> self]
  /\ pc' = "returned"
  /\ UNCHANGED heap

(* the harness goes on: it keeps the vehicle and drops the ended call's
   predictions and result *)
Return ==
  /\ pc = "returned"
  /\ pc' = "idle"
  /\ heap' = NoHeap
  /\ outcome' = NoOutcome
  /\ pre' = NoPre
  /\ UNCHANGED self

(* planning: the vehicle is configured, then asked to plan *)
Next ==
  \/ Configure
  \/ UpdateState
  \/ TrajectoryForState
  \/ Return

Spec == Init /\ [][Next]_vars

(* driving: the harness also realizes the chosen state and moves the vehicle *)
LiveNext ==
  \/ Configure
  \/ UpdateState
  \/ RealizeState
  \/ Increment
  \/ Return

LiveSpec == Init /\ [][LiveNext]_vars

----------------------------------------------------------------------------
(* The trajectory simulator alone: _trajectory_for_state called on vehicles
   as the constructor and configure() make them, at and away from their
   target speed *)

SimSpeedLimits == {1, 4}

SimInit ==
  /\ \E lane \in 0..(MaxLanes - 1), s \in InitS, v \in InitV, a \in InitA,
        speed_limit \in SimSpeedLimits, num_lanes \in 1..MaxLanes,
        max_acceleration \in MaxAccels, goal_s \in GoalS :
       /\ lane < num_lanes
       /\ self = configure([lane |-> lane, s |-> s, v |-> v, a |-> a, state |-> "CS"],
                           [speed_limit |-> speed_limit, num_lanes |-> num_lanes,
                            max_acceleration |-> max_acceleration,
                            goal |-> <<goal_s, num_lanes - 1>>])
  /\ heap = NoHeap
  /\ pc = "idle"
  /\ outcome = NoOutcome
  /\ pre = NoPre

SimNext ==
  \/ TrajectoryForState
  \/ Return

SimSpec == SimInit /\ [][SimNext]_vars

----------------------------------------------------------------------------
(* Kinematic queries: state_at, collides_with and will_collide_with asked of
   vehicles as the constructor makes them *)

KinS == {0, 1, 3}
KinV == {0, 2}
KinA == {-1, 0, 2}
Times == 0..MaxT

KinVehicles ==
  {[lane |-> lane, s |-> s, v |-> v, a |-> a, state |-> "CS"] :
     lane \in 0..(MaxLanes - 1), s \in KinS, v \in KinV, a \in KinA}

KinInit ==
  /\ self \in KinVehicles
  /\ heap = NoHeap
  /\ pc = "idle"
  /\ outcome = NoOutcome
  /\ pre = NoPre

StateAt ==
  /\ pc = "idle"
  /\ \E t \in Times :
       outcome' = [op |-> "state_at", err |-> NoError, t |-> t, val |-> state_at(self, t)]
  /\ pre' = [op |-> "state_at", self |-> self]
  /\ pc' = "returned"
  /\ UNCHANGED <<self, heap>>

CollidesWith ==
  /\ pc = "idle"
  /\ \E other \in KinVehicles, at_time \in Times :
       \E r \in {collides_with(self, other, at_time)} :
          /\ outcome' = [op |-> "collides_with", err |-> r.err, val |-> r.val,
                         other |-> other, at_time |-> at_time]
          /\ pc' = Ended(r.err)
  /\ pre' = [op |-> "collides_with", self |-> self]
  /\ UNCHANGED <<self, heap>>

WillCollideWith ==
  /\ pc = "idle"
  /\ \E other \in KinVehicles, timesteps \in Times :
       \E r \in {will_collide_with(self, other, timesteps)} :
          /\ outcome' = [op |-> "will_collide_with", err |-> r.err, val |-> r.val,
                         other |-> other, timesteps |-> timesteps]
          /\ pc' = Ended(r.err)
  /\ pre' = [op |-> "will_collide_with", self |-> self]
  /\ UNCHANGED <<self, heap>>

KinNext ==
  \/ StateAt
  \/ CollidesWith
  \/ WillCollideWith
  \/ Return

KinSpec == KinInit /\ [][KinNext]_vars

----------------------------------------------------------------------------
(* Properties *)

Ended_update_state == pc # "idle" /\ outcome.op = "update_state"
Returned_update_state == pc = "returned" /\ outcome.op = "update_state"
Returned_trajectory == pc = "returned" /\ outcome.op = "_trajectory_for_state"

(* C1, rollback purity: when _trajectory_for_state returns, for any of the
   six candidate states and any predictions, the vehicle's lane, s, v, a and
   state are what they were immediately before the call. *)
C1_RollbackPurity ==
  Returned_trajectory => snapshot(self) = snapshot(pre.self)

(* a lane change to the right was simulated, with another acceleration and
   another state tag than the vehicle's, and the call returned *)
C1_Witness ==
  /\ Returned_trajectory
  /\ outcome.state = "LCR" /\ pre.self.state # "LCR"
  /\ outcome.trajectory[2].lane = pre.self.lane + 1
  /\ outcome.trajectory[2].a # pre.self.a
  /\ outcome.trajectory[2].s # pre.self.s

(* C2, prediction isolation: after update_state the caller's predictions are
   what was passed in, every candidate's simulation began with a copy equal
   to what was passed in, and every call of the cost function received
   predictions equal to what was passed in. *)
C2_PredictionIsolation ==
  Ended_update_state =>
    /\ heap.predictions = pre.predictions
    /\ \A k \in 1..Len(outcome.copies) : outcome.copies[k] = pre.predictions
    /\ \A k \in 1..Len(outcome.calls) : outcome.calls[k].predictions = pre.predictions

(* three candidates were simulated against two other vehicles, and the copy
   the last simulation worked on has lost its head records *)
C2_Witness ==
  /\ Returned_update_state
  /\ Len(outcome.copies) = 3 /\ Len(outcome.calls) = 3
  /\ Len(pre.predictions) = 2
  /\ Len(heap.predictions_copy[1]) = Len(pre.predictions[1]) - Horizon

(* C5, simulator lane assertion: update_state called with a legal lane never
   fails the lane assertion, and every snapshot of every candidate's
   trajectory has a legal lane. *)
C5_LaneAssertion ==
  (Ended_update_state /\ lane_assertion(pre.self)) =>
    /\ outcome.err # "AssertionError"
    /\ \A k \in 1..Len(outcome.calls) :
         \A j \in 1..Len(outcome.calls[k].trajectory) :
           /\ 0 <= outcome.calls[k].trajectory[j].lane
           /\ outcome.calls[k].trajectory[j].lane < pre.self.lanes_available

(* from a middle lane both lane changes were simulated to the end *)
C5_Witness ==
  /\ Returned_update_state
  /\ Len(outcome.calls) = 3
  /\ outcome.calls[2].trajectory[Horizon + 1].lane = pre.self.lane - 1
  /\ outcome.calls[3].trajectory[Horizon + 1].lane = pre.self.lane + 1

(* C6, state legality: the state update_state sets is KL, LCL or LCR, never
   LCL in lane 0 and never LCR in the last lane. *)
C6_StateLegality ==
  Returned_update_state =>
    /\ self.state \in {"KL", "LCL", "LCR"}
    /\ ~(pre.self.lane = 0 /\ self.state = "LCL")
    /\ ~(pre.self.lane = pre.self.lanes_available - 1 /\ self.state = "LCR")

(* on a one-lane road, where both lane changes are filtered out, and in lane
   0 of a wider road, where LCR was chosen *)
C6_Witness ==
  /\ Returned_update_state
  /\ \/ pre.self.lanes_available = 1 /\ self.state = "KL"
     \/ pre.self.lane = 0 /\ pre.self.lanes_available > 1 /\ self.state = "LCR"

(* the candidates of a vehicle in the order KL, LCL, LCR *)
C7_Order(obj) ==
  SelectSeq(<<"KL", "LCL", "LCR">>,
            LAMBDA x : \/ x = "KL"
                       \/ x = "LCL" /\ obj.lane # 0
                       \/ x = "LCR" /\ obj.lane # obj.lanes_available - 1)

(* C7, stable arg-min: the candidates are evaluated in the order KL, LCL,
   LCR, the state set has the least cost, and every candidate before it in
   that order has a greater cost. *)
C7_StableArgMin ==
  Returned_update_state =>
    /\ [k \in 1..Len(outcome.costs) |-> outcome.costs[k].state] = C7_Order(pre.self)
    /\ \E k \in 1..Len(outcome.costs) :
         /\ outcome.costs[k].state = self.state
         /\ \A j \in 1..Len(outcome.costs) : outcome.costs[k].cost <= outcome.costs[j].cost
         /\ \A j \in 1..(k - 1) : outcome.costs[j].cost > outcome.costs[k].cost

(* LCL and LCR tie for the least cost, below KL, and LCL was set *)
C7_Witness ==
  /\ Returned_update_state
  /\ Len(outcome.costs) = 3
  /\ outcome.costs[2].cost = outcome.costs[3].cost
  /\ outcome.costs[2].cost < outcome.costs[1].cost
  /\ self.state = "LCL"

(* C8, commit frame: a successful update_state changes the state tag only;
   lane, s, v, a and the configuration fields are as before the call. *)
C8_CommitFrame ==
  Returned_update_state => [self EXCEPT !.state = pre.self.state] = pre.self

(* a lane change was chosen over a simulation that moved the vehicle *)
C8_Witness ==
  /\ Returned_update_state
  /\ self.state = "LCR" /\ pre.self.state # "LCR"
  /\ outcome.calls[Len(outcome.calls)].trajectory[2].lane # pre.self.lane
  /\ outcome.calls[Len(outcome.calls)].trajectory[2].a # pre.self.a

(* C9, cost-function failure: when the cost function fails for a candidate,
   update_state fails with that error, no later candidate is simulated or
   scored, and the vehicle's lane, s, v, a and state are as before the call. *)
C9_CostFailure ==
  (pc # "idle" /\ outcome.op = "update_state" /\ outcome.err = "CostError") =>
    /\ pc = "raised"
    /\ snapshot(self) = snapshot(pre.self)
    /\ Len(outcome.calls) = Len(outcome.costs) + 1
    /\ Len(outcome.copies) = Len(outcome.calls)
    /\ outcome.calls[Len(outcome.calls)].state = C7_Order(pre.self)[Len(outcome.calls)]

(* the cost function failed for the middle one of three candidates *)
C9_Witness ==
  /\ pc = "raised" /\ outcome.op = "update_state" /\ outcome.err = "CostError"
  /\ Len(C7_Order(pre.self)) = 3
  /\ Len(outcome.calls) = 2

(* C10, trajectory shape: _trajectory_for_state with horizon h returns h + 1
   snapshots, the first is the vehicle before the call with its own state
   tag, and every later one carries the candidate state. *)
C10_TrajectoryShape ==
  Returned_trajectory =>
    /\ Len(outcome.trajectory) = outcome.horizon + 1
    /\ outcome.trajectory[1] = snapshot(pre.self)
    /\ \A k \in 2..Len(outcome.trajectory) : outcome.trajectory[k].state = outcome.state

(* a full-horizon trajectory for a candidate other than the vehicle's state *)
C10_Witness ==
  /\ Returned_trajectory
  /\ outcome.horizon = Horizon
  /\ outcome.state = "PLCL" /\ pre.self.state = "CS"
  /\ Len(outcome.trajectory) = Horizon + 1

(* C3, acceleration bound: after realize_state the acceleration is within
   -max_acceleration .. max_acceleration. *)
C3_AccelerationBound ==
  (pc = "returned" /\ outcome.op = "realize_state") =>
    /\ -self.max_acceleration <= self.a
    /\ self.a <= self.max_acceleration

(* C4, lane invariant: once configured, 0 <= lane < lanes_available in every
   state the harness's calls of update_state, realize_state and increment
   reach. *)
C4_LaneInvariant ==
  (configured /\ pc # "raised") => lane_assertion(self)

Ended_trajectory == pc # "idle" /\ outcome.op = "_trajectory_for_state"

(* the vehicle every iteration of the ended simulation started from *)
Candidate == [pre.self EXCEPT !.state = outcome.state]

(* the trajectory elements of the iterations that completed: 2 .. Len *)
Steps == 2..Len(outcome.trajectory)

(* C11, PLC target lane: PLCL takes its reference vehicle among the vehicles
   whose current record is in lane - 1, PLCR among those in lane + 1, at or
   behind the ego's s, the one of the largest s; so the acceleration the
   first iteration realizes is the one computed against that vehicle. *)
C11_PrepTargetLane ==
  (Ended_trajectory /\ outcome.state \in {"PLCL", "PLCR"} /\ Steps # {}) =>
    LET lane == IF outcome.state = "PLCL" THEN pre.self.lane - 1 ELSE pre.self.lane + 1
    IN outcome.trajectory[2].a =
         prep_lane_change_toward(Candidate, pre.predictions, lane).self.a

(* the predictions iteration i (0-based) of a simulation reads, one head
   record of every vehicle being discarded after each iteration *)
advanced(predictions, i) ==
  [id \in DOMAIN predictions |->
     SubSeq(predictions[id], i + 1, Len(predictions[id]))]

(* a vehicle qualifies as nearest behind in the lane looked at, and delta_v
   or the closing time computed from it is 0 *)
C12_Degenerate(obj, predictions, direction) ==
  LET lane == prep_lane(obj, direction)
  IN /\ \A id \in DOMAIN predictions : Len(predictions[id]) >= 2
     /\ ids_and_vehicles(predictions, lane, obj.s) # {}
     /\ LET nb == predictions[nearest_behind(predictions, lane, obj.s)]
            delta_v == obj.v - (At(nb, 1).s - At(nb, 0).s)
            delta_s == obj.s - At(nb, 0).s
        IN delta_v = 0 \/ FloorDiv(-2 * delta_s, delta_v) = 0

(* C12, degenerate PLC fallback: when PLCL or PLCR is realized with a
   qualifying nearest-behind vehicle and delta_v = 0 or the computed time is
   0, no error is raised and the acceleration realized is the vehicle's
   acceleration before the realization. *)
C12_DegenerateFallback ==
  (Ended_trajectory /\ outcome.state \in {"PLCL", "PLCR"}) =>
    LET direction == IF outcome.state = "PLCL" THEN "L" ELSE "R"
    IN /\ C12_Degenerate(Candidate, pre.predictions, direction) => Steps # {}
       /\ \A k \in Steps :
            C12_Degenerate(Candidate, advanced(pre.predictions, k - 2), direction)
              => outcome.trajectory[k].a = pre.self.a

(* the vehicles of `against` whose current record is in `lane` strictly
   ahead of s *)
C13_Ahead(against, lane, s) ==
  {id \in DOMAIN against : against[id][1].lane = lane /\ against[id][1].s > s}

(* those of them with the smallest gap *)
C13_Nearest(against, lane, s) ==
  {id \in C13_Ahead(against, lane, s) :
     \A o \in C13_Ahead(against, lane, s) : against[id][1].s <= against[o][1].s}

C13_Candidate(obj) == Min2(obj.max_acceleration, obj.target_speed - obj.v)

C13_Room(obj, next) == next.s - (obj.s + obj.v) - preferred_buffer

(* a is what the claim gives for the lane: the candidate with nobody ahead,
   else the smaller of the candidate and the room behind the nearest lead *)
C13_Reference(obj, against, lane, a) ==
  IF C13_Ahead(against, lane, obj.s) = {}
    THEN a = C13_Candidate(obj)
    ELSE \E id \in C13_Nearest(against, lane, obj.s) :
           LET room == C13_Room(obj, against[id][2])
           IN /\ a = Min2(C13_Candidate(obj), room)
              /\ room < 0 => a < 0
              /\ room < C13_Candidate(obj) => a = room

(* C13, max_accel_for_lane reference: the acceleration realized for KL, LCL
   and LCR is min(max_acceleration, target_speed - v) when no vehicle's
   current record is in the lane strictly ahead, and otherwise the smaller
   of that and room = (index-1 s of the nearest lead) - (s + v) -
   preferred_buffer: negative when room is negative, room when room is the
   smaller. *)
C13_MaxAccelReference ==
  (Ended_trajectory /\ outcome.state \in {"KL", "LCL", "LCR"}) =>
    \A k \in Steps :
      C13_Reference(pre.self, advanced(pre.predictions, k - 2),
                    outcome.trajectory[k].lane, outcome.trajectory[k].a)

(* with two lead vehicles at different gaps in its lane, the vehicle brakes
   for lack of room behind the nearer one *)
C13_Witness ==
  /\ Returned_trajectory /\ outcome.state = "KL" /\ outcome.horizon = Horizon
  /\ \E k \in Steps :
       LET against == advanced(pre.predictions, k - 2)
       IN /\ Cardinality(C13_Ahead(against, pre.self.lane, pre.self.s)) = 2
          /\ Cardinality(C13_Nearest(against, pre.self.lane, pre.self.s)) = 1
          /\ outcome.trajectory[k].a < 0
          /\ outcome.trajectory[k].a < C13_Candidate(pre.self)

(* with a lead vehicle far enough ahead, the candidate is the smaller *)
C13_CandidateBehindLead ==
  /\ Returned_trajectory /\ outcome.state = "KL"
  /\ \E k \in Steps :
       LET against == advanced(pre.predictions, k - 2)
       IN \E id \in C13_Ahead(against, pre.self.lane, pre.self.s) :
            /\ C13_Room(pre.self, against[id][2]) > C13_Candidate(pre.self)
            /\ outcome.trajectory[k].a = C13_Candidate(pre.self)

C14_NewLane == IF outcome.state = "LCL" THEN pre.self.lane - 1 ELSE pre.self.lane + 1

(* C14, lane-change realization: realizing LCL takes exactly 1 from the
   lane, LCR adds exactly 1, the acceleration is the one max_accel_for_lane
   gives against the lead vehicle in the new lane, and s, v and the state
   tag are as before the realization: a snapshot taken after the increment
   has s + v and v + a, and a vehicle stopped by the lane assertion, before
   the increment, has s and v themselves. *)
C14_LaneChange ==
  (Ended_trajectory /\ outcome.state \in {"LCL", "LCR"}) =>
    /\ \A k \in Steps :
         /\ outcome.trajectory[k].lane = C14_NewLane
         /\ C13_Reference(pre.self, advanced(pre.predictions, k - 2), C14_NewLane,
                          outcome.trajectory[k].a)
         /\ outcome.trajectory[k].s = pre.self.s + pre.self.v
         /\ outcome.trajectory[k].v = pre.self.v + outcome.trajectory[k].a
         /\ outcome.trajectory[k].state = outcome.state
    /\ outcome.err = "AssertionError" =>
         /\ self.lane = C14_NewLane
         /\ C13_Reference(pre.self, pre.predictions, C14_NewLane, self.a)
         /\ self.s = pre.self.s /\ self.v = pre.self.v
         /\ self.state = outcome.state

(* a lane change to the right behind a lead vehicle of the new lane, with
   nobody ahead in the lane being left: the vehicle brakes for the new lane *)
C14_Witness ==
  /\ Returned_trajectory /\ outcome.state = "LCR"
  /\ C13_Ahead(pre.predictions, pre.self.lane, pre.self.s) = {}
  /\ C13_Ahead(pre.predictions, pre.self.lane + 1, pre.self.s) # {}
  /\ outcome.trajectory[2].lane = pre.self.lane + 1
  /\ outcome.trajectory[2].a < C13_Candidate(pre.self)

Abs(x) == IF x >= 0 THEN x ELSE -x

(* C15, collision test: collides_with(A, B, t) returns true when the lanes
   projected to t are equal and the projected s differ by at most the
   vehicle length L, returns false otherwise, and gives the same for
   (B, A, t). *)
C15_CollisionTest ==
  (pc # "idle" /\ outcome.op = "collides_with") =>
    LET a_t == state_at(pre.self, outcome.at_time)
        b_t == state_at(outcome.other, outcome.at_time)
    IN /\ outcome.err = NoError
       /\ outcome.val = (a_t.lane = b_t.lane /\ Abs(a_t.s - b_t.s) <= L)
       /\ collides_with(outcome.other, pre.self, outcome.at_time)
            = collides_with(pre.self, outcome.other, outcome.at_time)

(* C16, kinematic projection: for integer s, v, a and t >= 0, state_at(t)
   returns s' with 2 * s' = 2 * s + 2 * v * t + a * t * t, v' = v + a * t,
   the lane and a as they are, and leaves the vehicle as it was. *)
C16_KinematicProjection ==
  (pc # "idle" /\ outcome.op = "state_at") =>
    /\ 2 * outcome.val.s
         = 2 * pre.self.s + 2 * pre.self.v * outcome.t + pre.self.a * outcome.t * outcome.t
    /\ outcome.val.v = pre.self.v + pre.self.a * outcome.t
    /\ outcome.val.lane = pre.self.lane
    /\ outcome.val.a = pre.self.a
    /\ self = pre.self

(* C17, speculative mutation always undone: however control leaves
   _trajectory_for_state, by returning or by an exception part-way through
   the horizon, the vehicle's lane, s, v, a and state are what they were
   before the call. *)
C17_AlwaysUndone ==
  Ended_trajectory => snapshot(self) = snapshot(pre.self)

(* C18, prediction time advance: iteration i (0-based) of
   _trajectory_for_state realizes the state against the predictions whose
   index-0 records are the records that were at index i at entry; one head
   record of every vehicle is discarded after each iteration; and on return
   every sequence of the object passed in has lost exactly its first
   `horizon` records. *)
C18_PredictionAdvance ==
  Ended_trajectory =>
    /\ \A k \in Steps :
         outcome.trajectory[k] =
           snapshot(increment(realize_state(Candidate,
                                            advanced(pre.predictions, k - 2)).self))
    /\ heap.predictions = advanced(pre.predictions, Len(outcome.trajectory) - 1)
    /\ pc = "returned" =>
         /\ Len(outcome.trajectory) - 1 = outcome.horizon
         /\ \A id \in DOMAIN pre.predictions :
              Len(heap.predictions[id]) = Len(pre.predictions[id]) - outcome.horizon

(* a full horizon was simulated against two other vehicles, the last
   iteration realized another acceleration than the first, and a sequence of
   horizon + 1 records is left with one *)
C18_Witness ==
  /\ Returned_trajectory
  /\ outcome.horizon = Horizon
  /\ Len(pre.predictions) = 2
  /\ outcome.trajectory[2].a # outcome.trajectory[Horizon + 1].a
  /\ Len(pre.predictions[1]) = Horizon + 1
  /\ Len(heap.predictions[1]) = 1 /\ Len(heap.predictions[2]) = 1

(* the change of lane the candidate makes *)
C19_Shift ==
  CASE outcome.state = "LCL" -> -1
    [] outcome.state = "LCR" -> 1
    [] OTHER -> 0

(* C19, no accumulation across the horizon: every trajectory element after
   the first has s = s0 + v0, v = v0 + a_i for the acceleration a_i it
   carries, and the lane of the vehicle shifted once by the candidate, so
   the elements differ only through a_i; with no other vehicles and
   v0 = target_speed the KL trajectory has v = v0 at every step. *)
C19_NoAccumulation ==
  Ended_trajectory =>
    /\ \A k \in Steps :
         outcome.trajectory[k] =
           Snapshot(pre.self.lane + C19_Shift,
                    pre.self.s + pre.self.v,
                    pre.self.v + outcome.trajectory[k].a,
                    outcome.trajectory[k].a,
                    outcome.state)
    /\ (/\ outcome.state = "KL"
        /\ pre.predictions = EmptyDict
        /\ pre.self.v = pre.self.target_speed) =>
         \A k \in Steps : outcome.trajectory[k].v = pre.self.v

(* a moving vehicle at its target speed, alone on the road, keeps lane over
   the full horizon: the last element is one step from the start *)
C19_Witness ==
  /\ Returned_trajectory
  /\ outcome.state = "KL" /\ outcome.horizon = Horizon
  /\ pre.predictions = EmptyDict
  /\ pre.self.v = pre.self.target_speed /\ pre.self.v # 0
  /\ outcome.trajectory[Horizon + 1].s = pre.self.s + pre.self.v
  /\ outcome.trajectory[Horizon + 1].v = pre.self.v

(* accelerations differ along a trajectory, and the elements with them *)
C19_Varying ==
  /\ Returned_trajectory
  /\ outcome.horizon = Horizon
  /\ pre.self.v # 0
  /\ outcome.trajectory[2].a # outcome.trajectory[Horizon + 1].a
  /\ outcome.trajectory[Horizon + 1].a # 0

(* a vehicle is strictly ahead in the candidate's lane at the last iteration *)
C20_LeadAtLast ==
  C13_Ahead(advanced(pre.predictions, outcome.horizon - 1),
            pre.self.lane + C19_Shift, pre.self.s) # {}

(* C20, prediction-length sufficiency: for KL, LCL and LCR, when every
   sequence holds at least horizon + 1 records at entry no index-0 or
   index-1 read and no pop fails; when the sequences hold horizon records
   and a vehicle leads in the last iteration, that iteration's index-1 read
   is out of range. *)
C20_PredictionLength ==
  (Ended_trajectory /\ outcome.state \in {"KL", "LCL", "LCR"}) =>
    /\ (\A id \in DOMAIN pre.predictions :
          Len(pre.predictions[id]) >= outcome.horizon + 1)
         => outcome.err # "IndexError"
    /\ (/\ \A id \in DOMAIN pre.predictions :
             Len(pre.predictions[id]) = outcome.horizon
        /\ C20_LeadAtLast
        /\ outcome.err # "AssertionError")
         => /\ outcome.err = "IndexError"
            /\ Len(outcome.trajectory) = outcome.horizon

(* horizon + 1 records sufficed: the last iteration read the last record of
   its lead vehicle *)
C20_Witness ==
  /\ Returned_trajectory
  /\ outcome.state = "LCR" /\ outcome.horizon = Horizon
  /\ pre.predictions # EmptyDict
  /\ \A id \in DOMAIN pre.predictions : Len(pre.predictions[id]) = Horizon + 1
  /\ C20_LeadAtLast

(* horizon records did not: the last iteration failed *)
C20_ShortByOne ==
  /\ pc = "raised" /\ outcome.op = "_trajectory_for_state"
  /\ outcome.state = "KL" /\ outcome.horizon = Horizon
  /\ \A id \in DOMAIN pre.predictions : Len(pre.predictions[id]) = Horizon
  /\ outcome.err = "IndexError"
  /\ Len(outcome.trajectory) = Horizon

====
